---- MODULE Spec2Model ----
(***************************************************************************)
(* Model of nfl_predictor.py: the rating engine over three immutable       *)
(* tables (ROSTERS, PLAYER_STATS, TEAM_STATS) and the odds conversion.     *)
(*                                                                         *)
(* The tables are loaded once and never written, so the state is the       *)
(* tables plus the last call made on them (op, args, result).  Python      *)
(* floats are modelled as exact rationals [n, d]; None and a raised        *)
(* exception are tagged values of the same record shape.                   *)
(***************************************************************************)
EXTENDS Integers, Sequences, FiniteSets, TLC

VARIABLES ROSTERS, PLAYER_STATS, PLAYER_COLUMNS, TEAM_STATS, TEAM_COLUMNS,
          op, args, result

vars == <<ROSTERS, PLAYER_STATS, PLAYER_COLUMNS, TEAM_STATS, TEAM_COLUMNS,
          op, args, result>>

tables == <<ROSTERS, PLAYER_STATS, PLAYER_COLUMNS, TEAM_STATS, TEAM_COLUMNS>>

(***************************************************************************)
(* Values: a number n/d (d > 0, lowest terms), Python's None, or a raised  *)
(* exception named by its type.                                            *)
(***************************************************************************)
Abs(x) == IF x < 0 THEN -x ELSE x

RECURSIVE GCD(_, _)
GCD(a, b) == IF b = 0 THEN a ELSE GCD(b, a % b)

Rat(n, d) ==
    LET s == IF d < 0 THEN -1 ELSE 1
        g == GCD(Abs(n), Abs(d))
    IN  [tag |-> "num", n |-> (s * n) \div g, d |-> (s * d) \div g]

Int2Val(k) == [tag |-> "num", n |-> k, d |-> 1]

None == [tag |-> "none", n |-> 0, d |-> 1]

Raise(kind) == [tag |-> kind, n |-> 0, d |-> 1]

IsNum(v) == v.tag = "num"

IsNone(v) == v.tag = "none"

IsRaise(v) == v.tag \notin {"num", "none"}

RAdd(a, b) == Rat(a.n * b.d + b.n * a.d, a.d * b.d)

RSub(a, b) == Rat(a.n * b.d - b.n * a.d, a.d * b.d)

RMul(a, b) == Rat(a.n * b.n, a.d * b.d)

\* Python's true division: a zero divisor raises ZeroDivisionError.
RDiv(a, b) == IF b.n = 0 THEN Raise("ZeroDivisionError")
              ELSE Rat(a.n * b.d, a.d * b.n)

RLess(a, b) == a.n * b.d < b.n * a.d

RLeq(a, b) == a.n * b.d <= b.n * a.d

Zero == Int2Val(0)

One == Int2Val(1)

\* Exact root of a perfect square (the inputs drawn below are perfect squares).
IntSqrt(k) == CHOOSE r \in 0..k : r * r = k

sqrt(x) == [tag |-> "num", n |-> IntSqrt(x.n), d |-> IntSqrt(x.d)]

safe_sqrt(x) == IF IsNone(x) \/ RLeq(x, Zero) THEN Zero ELSE sqrt(x)

safe(value, default) == IF IsNone(value) THEN default ELSE value

(***************************************************************************)
(* american_to_prob                                                        *)
(***************************************************************************)
american_to_prob_swapped(odds) ==
    IF odds > 0 THEN Rat(odds, odds + 100) ELSE Rat(100, -odds + 100)

american_to_prob(odds) ==
    IF odds > 0 THEN Rat(100, odds + 100) ELSE Rat(-odds, -odds + 100)

MaxOdds == 200

\* Python's 100 / (odds + 100) raises at odds = -100 only in the positive
\* branch, which odds > 0 excludes; odds = 0 is left out (the else branch
\* returns 0 there, outside (0,1)).
OddsDomain == (-MaxOdds..MaxOdds) \ {0}

(***************************************************************************)
(* Tables.  A table is a sequence of rows in the table's natural order.    *)
(* A null string cell is NullStr; a null numeric cell is None.             *)
(***************************************************************************)
NullStr == "<null>"

\* polars ==: a comparison with a null cell is null, and filter drops the row.
EqStr(cell, value) == cell # NullStr /\ value # NullStr /\ cell = value

EqNum(cell, value) == IsNum(cell) /\ IsNum(value) /\ cell = value

RECURSIVE SeqFilter(_, _)
\* DataFrame.filter with the row mask keep[i], keeping row order.
SeqFilter(rows, keep) ==
    IF rows = <<>> THEN <<>>
    ELSE LET n == Len(rows)
             front == SeqFilter(SubSeq(rows, 1, n - 1), SubSeq(keep, 1, n - 1))
         IN  IF keep[n] THEN Append(front, rows[n]) ELSE front

Column(rows, name) == [i \in 1..Len(rows) |-> rows[i][name]]

\* Series.max(): the largest non-null value, None when there is none.
series_max(col) ==
    LET present == {i \in 1..Len(col) : IsNum(col[i])}
    IN  IF present = {} THEN None
        ELSE col[CHOOSE i \in present : \A j \in present : RLeq(col[j], col[i])]

RECURSIVE series_sum(_)
\* Series.sum(): nulls are skipped; the sum of nothing is 0.
series_sum(col) ==
    IF col = <<>> THEN Zero
    ELSE LET n == Len(col)
             front == series_sum(SubSeq(col, 1, n - 1))
         IN  IF IsNum(col[n]) THEN RAdd(front, col[n]) ELSE front

\* Series.mean(): the mean of the non-null values, None when there is none.
series_mean(col) ==
    LET present == {i \in 1..Len(col) : IsNum(col[i])}
    IN  IF present = {} THEN None
        ELSE RDiv(series_sum(col), Int2Val(Cardinality(present)))

\* Series.item(): the only element; any other length raises ValueError.
item(col) == IF Len(col) = 1 THEN col[1] ELSE Raise("ValueError")

(***************************************************************************)
(* get_skill_players                                                       *)
(***************************************************************************)
Positions == <<"QB", "RB", "WR", "TE">>

NoPlayers == <<<<>>, <<>>, <<>>, <<>>>>

get_skill_players_team_week(team_abbr) ==
    IF ROSTERS = <<>> THEN NoPlayers
    ELSE
    LET of_team == SeqFilter(ROSTERS,
                       [i \in 1..Len(ROSTERS) |-> EqStr(ROSTERS[i].team, team_abbr)])
        latest_week == series_max(Column(of_team, "week"))
        team == SeqFilter(ROSTERS, [i \in 1..Len(ROSTERS) |->
                    /\ EqStr(ROSTERS[i].team, team_abbr)
                    /\ EqNum(ROSTERS[i].week, latest_week)
                    /\ EqStr(ROSTERS[i].game_type, "REG")
                    /\ EqStr(ROSTERS[i].status, "ACT")])
    IN  [k \in 1..4 |->
            Column(SeqFilter(team, [i \in 1..Len(team) |->
                       EqStr(team[i].position, Positions[k])]), "full_name")]

get_skill_players(team_abbr) ==
    IF ROSTERS = <<>> THEN NoPlayers
    ELSE
    LET latest_week == series_max(Column(ROSTERS, "week"))
        team == SeqFilter(ROSTERS, [i \in 1..Len(ROSTERS) |->
                    /\ EqStr(ROSTERS[i].team, team_abbr)
                    /\ EqNum(ROSTERS[i].week, latest_week)
                    /\ EqStr(ROSTERS[i].game_type, "REG")
                    /\ EqStr(ROSTERS[i].status, "ACT")])
    IN  IF team = <<>> THEN NoPlayers
        ELSE
        LET skill == SeqFilter(team, [i \in 1..Len(team) |->
                         \E k \in 1..4 : EqStr(team[i].position, Positions[k])])
        IN  [k \in 1..4 |->
                Column(SeqFilter(skill, [i \in 1..Len(skill) |->
                           EqStr(skill[i].position, Positions[k])]), "full_name")]

(***************************************************************************)
(* get_player_stat, get_last3_total                                        *)
(***************************************************************************)
StatColumns ==
    {"attempts", "completions", "passing_yards", "passing_epa", "pacr",
     "carries", "rushing_yards", "rushing_epa",
     "receptions", "receiving_yards", "receiving_epa", "wopr"}

\* The code reads these two columns without testing for them: the schema of the
\* player-stat table has them.
KeyColumns == {"player_display_name", "week"}

PlayerRowsOf(player) ==
    SeqFilter(PLAYER_STATS, [i \in 1..Len(PLAYER_STATS) |->
        EqStr(PLAYER_STATS[i].player_display_name, player)])

get_player_stat_first(player, column) ==
    IF column \notin PLAYER_COLUMNS THEN Zero
    ELSE LET row == PlayerRowsOf(player)
         IN  IF row = <<>> THEN Zero
             ELSE safe(row[1][column], Zero)

get_player_stat_unsafe(player, column) ==
    IF column \notin PLAYER_COLUMNS THEN Zero
    ELSE LET row == PlayerRowsOf(player)
         IN  IF row = <<>> THEN Zero
             ELSE item(Column(row, column))

get_player_stat(player, column) ==
    IF column \notin PLAYER_COLUMNS THEN Zero
    ELSE LET row == PlayerRowsOf(player)
         IN  IF row = <<>> THEN Zero
             ELSE LET value == item(Column(row, column))
                  IN  IF IsRaise(value) THEN value ELSE safe(value, Zero)

get_last3_total_strict(player, column) ==
    IF column \notin PLAYER_COLUMNS THEN Zero
    ELSE LET df == PlayerRowsOf(player)
         IN  IF df = <<>> THEN Zero
             ELSE LET max_week == series_max(Column(df, "week"))
                  IN  IF IsNone(max_week) THEN Zero
                      ELSE LET last3 == SeqFilter(df, [i \in 1..Len(df) |->
                                   /\ IsNum(df[i].week)
                                   /\ RLess(RSub(max_week, Int2Val(2)), df[i].week)])
                           IN  safe(series_sum(Column(last3, column)), Zero)

get_last3_total(player, column) ==
    IF column \notin PLAYER_COLUMNS THEN Zero
    ELSE LET df == PlayerRowsOf(player)
         IN  IF df = <<>> THEN Zero
             ELSE LET max_week == series_max(Column(df, "week"))
                  IN  IF IsNone(max_week) THEN Zero
                      ELSE LET last3 == SeqFilter(df, [i \in 1..Len(df) |->
                                   /\ IsNum(df[i].week)
                                   /\ RLeq(RSub(max_week, Int2Val(2)), df[i].week)])
                           IN  safe(series_sum(Column(last3, column)), Zero)

(***************************************************************************)
(* get_def_adjustment, get_pace_adjustment                                 *)
(***************************************************************************)
TeamRowsOf(team_abbr) ==
    SeqFilter(TEAM_STATS, [i \in 1..Len(TEAM_STATS) |->
        EqStr(TEAM_STATS[i].team, team_abbr)])

Half == Rat(1, 2)

get_def_adjustment_clamped(team_abbr) ==
    IF TEAM_STATS = <<>> THEN One
    ELSE LET row == TeamRowsOf(team_abbr)
         IN  IF row = <<>> THEN One
             ELSE IF "def_epa_per_play" \notin TEAM_COLUMNS THEN One
             ELSE LET def_epa == item(Column(row, "def_epa_per_play"))
                  IN  IF IsRaise(def_epa) THEN def_epa
                      ELSE LET adj == RAdd(One, RMul(safe(def_epa, Zero), Half))
                           IN  IF RLess(adj, Zero) THEN Zero ELSE adj

get_def_adjustment(team_abbr) ==
    IF TEAM_STATS = <<>> THEN One
    ELSE LET row == TeamRowsOf(team_abbr)
         IN  IF row = <<>> THEN One
             ELSE IF "def_epa_per_play" \notin TEAM_COLUMNS THEN One
             ELSE LET def_epa == item(Column(row, "def_epa_per_play"))
                  IN  IF IsRaise(def_epa) THEN def_epa
                      ELSE RAdd(One, RMul(safe(def_epa, Zero), Half))

get_pace_adjustment_inverted(team_abbr) ==
    IF "seconds_per_play" \notin TEAM_COLUMNS THEN One
    ELSE LET row == TeamRowsOf(team_abbr)
         IN  IF row = <<>> THEN One
             ELSE LET seconds == item(Column(row, "seconds_per_play"))
                  IN  IF IsRaise(seconds) THEN seconds
                      ELSE IF seconds = Zero \/ IsNone(seconds) THEN One
                      ELSE LET league_avg ==
                                   series_mean(Column(TEAM_STATS, "seconds_per_play"))
                           IN  RDiv(seconds, league_avg)

get_pace_adjustment(team_abbr) ==
    IF "seconds_per_play" \notin TEAM_COLUMNS THEN One
    ELSE LET row == TeamRowsOf(team_abbr)
         IN  IF row = <<>> THEN One
             ELSE LET seconds == item(Column(row, "seconds_per_play"))
                  IN  IF IsRaise(seconds) THEN seconds
                      ELSE IF seconds = Zero \/ IsNone(seconds) THEN One
                      ELSE LET league_avg ==
                                   series_mean(Column(TEAM_STATS, "seconds_per_play"))
                           IN  RDiv(league_avg, seconds)

(***************************************************************************)
(* qb_score, rb_score, rec_score                                           *)
(***************************************************************************)
\* An exception raised by a call propagates: the first raised value of `vals`
\* (in evaluation order), or `otherwise` when none raised.
Propagate(vals, otherwise) ==
    IF \E i \in 1..Len(vals) : IsRaise(vals[i])
    THEN vals[CHOOSE i \in 1..Len(vals) :
                  IsRaise(vals[i]) /\ \A j \in 1..(i - 1) : ~IsRaise(vals[j])]
    ELSE otherwise

\* Python's  x / y if y else 0
GuardedDiv(x, y) == IF y # Zero THEN RDiv(x, y) ELSE Zero

Times(x, n, d) == RMul(x, Rat(n, d))

\* base = a + b + ...; a division by zero would surface as the result.
Total(terms) ==
    Propagate(terms,
        LET RECURSIVE Fold(_)
            Fold(k) == IF k = 0 THEN Zero ELSE RAdd(Fold(k - 1), terms[k])
        IN  Fold(Len(terms)))

qb_score_floor_inclusive(player) ==
    LET attempts == get_player_stat(player, "attempts") IN
    IF IsRaise(attempts) THEN attempts
    ELSE IF RLeq(attempts, Int2Val(20)) THEN None
    ELSE
    LET completions == get_player_stat(player, "completions")
        yards == get_player_stat(player, "passing_yards")
        epa == get_player_stat(player, "passing_epa")
        pacr == get_player_stat(player, "pacr")
        last3 == get_last3_total(player, "passing_yards")
    IN  Propagate(<<completions, yards, epa, pacr, last3>>,
            LET pass_pct == GuardedDiv(completions, attempts)
                ypa == GuardedDiv(yards, attempts)
            IN  Total(<<Times(pass_pct, 10, 1), Times(ypa, 2, 1), Times(epa, 2, 5),
                        Times(safe_sqrt(pacr), 5, 1), Times(last3, 1, 100)>>))

qb_score(player) ==
    LET attempts == get_player_stat(player, "attempts") IN
    IF IsRaise(attempts) THEN attempts
    ELSE IF RLess(attempts, Int2Val(20)) THEN None
    ELSE
    LET completions == get_player_stat(player, "completions")
        yards == get_player_stat(player, "passing_yards")
        epa == get_player_stat(player, "passing_epa")
        pacr == get_player_stat(player, "pacr")
        last3 == get_last3_total(player, "passing_yards")
    IN  Propagate(<<completions, yards, epa, pacr, last3>>,
            LET pass_pct == GuardedDiv(completions, attempts)
                ypa == GuardedDiv(yards, attempts)
            IN  Total(<<Times(pass_pct, 10, 1), Times(ypa, 2, 1), Times(epa, 2, 5),
                        Times(safe_sqrt(pacr), 5, 1), Times(last3, 1, 100)>>))

rb_score(player) ==
    LET carries == get_player_stat(player, "carries") IN
    IF IsRaise(carries) THEN carries
    ELSE IF RLess(carries, Int2Val(10)) THEN None
    ELSE
    LET yards == get_player_stat(player, "rushing_yards")
        epa == get_player_stat(player, "rushing_epa")
        last3 == get_last3_total(player, "rushing_yards")
    IN  Propagate(<<yards, epa, last3>>,
            LET ypc == GuardedDiv(yards, carries)
            IN  Total(<<Times(carries, 1, 2), Times(ypc, 2, 1), Times(epa, 2, 5),
                        Times(last3, 1, 100)>>))

rec_score(player) ==
    LET receptions == get_player_stat(player, "receptions") IN
    IF IsRaise(receptions) THEN receptions
    ELSE IF RLess(receptions, Int2Val(10)) THEN None
    ELSE
    LET yards == get_player_stat(player, "receiving_yards")
        epa == get_player_stat(player, "receiving_epa")
        wopr == get_player_stat(player, "wopr")
        last3 == get_last3_total(player, "receiving_yards")
    IN  Propagate(<<yards, epa, wopr, last3>>,
            LET ypr == GuardedDiv(yards, receptions)
            IN  Total(<<Times(ypr, 2, 1), Times(epa, 2, 5), Times(wopr, 10, 1),
                        Times(last3, 1, 100)>>))

(***************************************************************************)
(* build_team_model                                                        *)
(***************************************************************************)
\* Python's truth value of a score: None and 0.0 are false.
Truthy(score) == ~IsNone(score) /\ score # Zero

Positive(score) == ~IsNone(score) /\ RLess(Zero, score)

ScoreOf(k, player) ==
    CASE k = 1 -> qb_score(player)
      [] k = 2 -> rb_score(player)
      [] k \in {3, 4} -> rec_score(player)

Weight == <<Rat(3, 2), One, One, Rat(4, 5)>>

\* if s: total_score += s * weight   (an exception raised by the scorer
\* propagates)
AccumulatePositive(total_score, score, weight) ==
    IF IsRaise(score) THEN score
    ELSE IF Positive(score) THEN RAdd(total_score, RMul(score, weight))
    ELSE total_score

Accumulate(total_score, score, weight) ==
    IF IsRaise(score) THEN score
    ELSE IF Truthy(score) THEN RAdd(total_score, RMul(score, weight))
    ELSE total_score

RECURSIVE AddGroup(_, _, _, _)
\* for p in players[i..]: s = score(p); if s: total_score += s * weight
AddGroup(total_score, k, players, i) ==
    IF IsRaise(total_score) \/ i > Len(players) THEN total_score
    ELSE AddGroup(Accumulate(total_score, ScoreOf(k, players[i]), Weight[k]),
                  k, players, i + 1)

\* The four loops in order: QBs, RBs, WRs, TEs.
RECURSIVE AddGroups(_, _, _)
AddGroups(total_score, groups, k) ==
    IF k > 4 THEN total_score
    ELSE AddGroups(AddGroup(total_score, k, groups[k], 1), groups, k + 1)

\* total_score *= def_adj; total_score *= pace_adj
ApplyAdjustments(total_score, def_adj, pace_adj) ==
    IF IsRaise(total_score) THEN total_score
    ELSE RMul(RMul(total_score, def_adj), pace_adj)

\* The adjustments are computed before the loops, so their exceptions come first.
RunModel(groups, def_adj, pace_adj) ==
    IF IsRaise(def_adj) THEN def_adj
    ELSE IF IsRaise(pace_adj) THEN pace_adj
    ELSE ApplyAdjustments(AddGroups(Zero, groups, 1), def_adj, pace_adj)

build_team_model(team_abbr, opponent_abbr) ==
    RunModel(get_skill_players(team_abbr),
             get_def_adjustment(opponent_abbr),
             get_pace_adjustment(team_abbr))

(***************************************************************************)
(* Specifications                                                          *)
(***************************************************************************)
NoCall == op = "init" /\ args = <<>> /\ result = None

EmptyTables ==
    /\ ROSTERS = <<>>
    /\ PLAYER_STATS = <<>>
    /\ PLAYER_COLUMNS = {}
    /\ TEAM_STATS = <<>>
    /\ TEAM_COLUMNS = {}

Call_american_to_prob ==
    \E odds \in OddsDomain :
        /\ op' = "american_to_prob"
        /\ args' = <<odds>>
        /\ result' = american_to_prob(odds)
        /\ UNCHANGED tables

InitOdds == EmptyTables /\ NoCall

NextOdds == Call_american_to_prob

SpecOdds == InitOdds /\ [][NextOdds]_vars

\* C9 (as stated): probability never decreases as American odds decrease, for
\* any two nonzero integer odds a < b converted one after the other.
C9_MonotoneAllOdds ==
    [][(op = "american_to_prob" /\ op' = "american_to_prob" /\ args[1] < args'[1])
        => RLeq(result', result)]_vars

\* C9 (amended): for nonzero odds a < b, prob(a) >= prob(b) exactly when a and b
\* have the same sign or |a| * b >= 10000; this covers every pair of valid
\* American odds (|odds| >= 100).  Also american_to_prob(150) = 2/5 and
\* american_to_prob(-150) = 3/5.
C9_MonotoneValidOdds ==
    [][(op = "american_to_prob" /\ op' = "american_to_prob" /\ args[1] < args'[1])
        => /\ RLeq(result', result)
              <=> (args[1] * args'[1] > 0 \/ Abs(args[1]) * args'[1] >= 10000)
           /\ (Abs(args[1]) >= 100 /\ Abs(args'[1]) >= 100) => RLeq(result', result)
           /\ args'[1] = 150 => result' = Rat(2, 5)
           /\ args[1] = -150 => result = Rat(3, 5)]_vars

C9_Witness ==
    op = "american_to_prob" /\ args = <<-150>> /\ result = Rat(3, 5)

(***************************************************************************)
(* Roster resolution: the roster table varies, get_skill_players is called *)
(***************************************************************************)
MaxRosterRows == 3

Week(k) == Int2Val(k)

RosterRow(t, w, g, st, pos, name) ==
    [team |-> t, week |-> w, game_type |-> g, status |-> st,
     position |-> pos, full_name |-> name]

\* Active regular-season SEA rows at week 2, and rows that differ from them in
\* one column (another team, an earlier or later or null week, a postseason
\* game, an inactive status, a null team).
RosterRows ==
    {RosterRow("SEA", Week(2), "REG", "ACT", pos, name) :
        pos \in {"QB", "RB", "WR", "TE", "K"}, name \in {"A", "B"}}
    \cup {RosterRow("NE", Week(2), "REG", "ACT", "QB", "B"),
          RosterRow("SEA", Week(1), "REG", "ACT", "QB", "A"),
          RosterRow("NE", Week(3), "REG", "INA", "RB", "A"),
          RosterRow("SEA", Week(2), "POST", "ACT", "WR", "A"),
          RosterRow("SEA", None, "REG", "ACT", "TE", "A"),
          RosterRow(NullStr, Week(2), "REG", "ACT", "QB", "A")}

Teams == {"SEA", "NE", "XX"}

SeqsUpTo(S, n) == UNION {[1..k -> S] : k \in 0..n}

Call_get_skill_players ==
    \E team_abbr \in Teams :
        /\ op' = "get_skill_players"
        /\ args' = <<team_abbr>>
        /\ result' = get_skill_players(team_abbr)
        /\ UNCHANGED tables

InitRoster ==
    /\ ROSTERS \in SeqsUpTo(RosterRows, MaxRosterRows)
    /\ PLAYER_STATS = <<>>
    /\ PLAYER_COLUMNS = {}
    /\ TEAM_STATS = <<>>
    /\ TEAM_COLUMNS = {}
    /\ NoCall

NextRoster == Call_get_skill_players

SpecRoster == InitRoster /\ [][NextRoster]_vars

\* The largest week of any roster row is w: some row has it and none exceeds it.
IsGlobalLatestWeek(w) ==
    /\ \E i \in 1..Len(ROSTERS) : ROSTERS[i].week = Week(w)
    /\ \A i \in 1..Len(ROSTERS) : IsNum(ROSTERS[i].week) => ROSTERS[i].week.n <= w

\* Row i is an active regular-season row of the team at the global latest week.
Eligible(i, team) ==
    /\ ROSTERS[i].team = team
    /\ IsNum(ROSTERS[i].week) /\ IsGlobalLatestWeek(ROSTERS[i].week.n)
    /\ ROSTERS[i].game_type = "REG"
    /\ ROSTERS[i].status = "ACT"

RECURSIVE NamesUpTo(_, _, _)
\* full_name of the eligible rows of the position among the first k rows, in order.
NamesUpTo(k, team, pos) ==
    IF k = 0 THEN <<>>
    ELSE IF Eligible(k, team) /\ ROSTERS[k].position = pos
         THEN Append(NamesUpTo(k - 1, team, pos), ROSTERS[k].full_name)
         ELSE NamesUpTo(k - 1, team, pos)

\* C3: get_skill_players(team) returns four sequences (QB, RB, WR, TE), each the
\* full_name, in table order, of exactly the rows with that team, the global
\* maximum week, game_type REG, status ACT and that position; rows of other
\* positions appear nowhere; all four are empty when the table is empty or the
\* team has no eligible row at the global latest week.
C3_SkillPlayers ==
    op = "get_skill_players" =>
        LET team == args[1] IN
        /\ Len(result) = 4
        /\ \A k \in 1..4 : result[k] = NamesUpTo(Len(ROSTERS), team, Positions[k])
        /\ Len(result[1]) + Len(result[2]) + Len(result[3]) + Len(result[4])
             = Cardinality({i \in 1..Len(ROSTERS) :
                   Eligible(i, team) /\ ROSTERS[i].position \in {"QB", "RB", "WR", "TE"}})
        /\ (ROSTERS = <<>> \/ ~ \E i \in 1..Len(ROSTERS) : Eligible(i, team))
             => result = NoPlayers

\* The team has active regular-season rows, but only at an earlier week than the
\* table's latest: every sequence is empty.
C3_Witness ==
    /\ op = "get_skill_players" /\ args = <<"SEA">>
    /\ result = NoPlayers
    /\ Len(ROSTERS) = 3
    /\ \E i \in 1..3 : /\ ROSTERS[i].team = "SEA" /\ ROSTERS[i].week = Week(1)
                       /\ ROSTERS[i].status = "ACT" /\ ROSTERS[i].game_type = "REG"
    /\ \E i \in 1..3 : ROSTERS[i].team = "NE" /\ ROSTERS[i].week = Week(2)

\* Two quarterbacks and a kicker resolve to the quarterbacks in row order.
C3_WitnessOrder ==
    /\ op = "get_skill_players" /\ args = <<"SEA">>
    /\ result = <<<<"B", "A">>, <<>>, <<>>, <<>>>>
    /\ \E i \in 1..Len(ROSTERS) : ROSTERS[i].position = "K"

(***************************************************************************)
(* Stat access: the player-stat table varies; get_player_stat and          *)
(* get_last3_total are called                                              *)
(***************************************************************************)
MaxStatRows == 3

StatRow(name, w, stats) ==
    [c \in KeyColumns \cup StatColumns |->
        IF c = "player_display_name" THEN name
        ELSE IF c = "week" THEN w
        ELSE IF c \in DOMAIN stats THEN stats[c] ELSE None]

Yards(v) == [passing_yards |-> v]

\* Weekly rows of player A (weeks 1, 4, 5, 6 or null; yards 7 or null) and two
\* rows of another player.
AccessRows ==
    {StatRow("A", w, Yards(y)) :
        w \in {None, Week(1), Week(4), Week(5), Week(6)}, y \in {None, Int2Val(7)}}
    \cup {StatRow("B", Week(6), Yards(Int2Val(100))), StatRow("B", Week(1), Yards(None))}

Players == {"A", "B", "Z"}

AccessColumns == {"passing_yards", "no_such_column"}

Call_get_player_stat ==
    \E player \in Players, column \in AccessColumns :
        /\ op' = "get_player_stat"
        /\ args' = <<player, column>>
        /\ result' = get_player_stat(player, column)
        /\ UNCHANGED tables

Call_get_last3_total ==
    \E player \in Players, column \in AccessColumns :
        /\ op' = "get_last3_total"
        /\ args' = <<player, column>>
        /\ result' = get_last3_total(player, column)
        /\ UNCHANGED tables

\* The table has every column of the schema, or lacks the columns in `missing`
\* (then no row holds a value there).
StatTables(rows, n) ==
    \E missing \in {{}, {"passing_yards"}} :
        /\ PLAYER_COLUMNS = (KeyColumns \cup StatColumns) \ missing
        /\ PLAYER_STATS \in SeqsUpTo({r \in rows : \A c \in missing : r[c] = None}, n)

InitAccess ==
    /\ ROSTERS = <<>>
    /\ StatTables(AccessRows, MaxStatRows)
    /\ TEAM_STATS = <<>>
    /\ TEAM_COLUMNS = {}
    /\ NoCall

NextAccess == Call_get_player_stat \/ Call_get_last3_total

SpecAccess == InitAccess /\ [][NextAccess]_vars

RowsFor(player) ==
    {i \in 1..Len(PLAYER_STATS) : PLAYER_STATS[i].player_display_name = player}

RECURSIVE SumOver(_, _)
\* The sum of the column over the rows in `idx`, a null cell counting 0.
SumOver(idx, column) ==
    IF idx = {} THEN Zero
    ELSE LET i == CHOOSE j \in idx : TRUE
             v == PLAYER_STATS[i][column]
         IN  RAdd(IF IsNone(v) THEN Zero ELSE v, SumOver(idx \ {i}, column))

\* The player's rows whose week is within 2 of the player's own maximum week.
TrailingWindow(player) ==
    {i \in RowsFor(player) :
        /\ IsNum(PLAYER_STATS[i].week)
        /\ \A j \in RowsFor(player) :
               IsNum(PLAYER_STATS[j].week)
                   => PLAYER_STATS[i].week.n >= PLAYER_STATS[j].week.n - 2}

\* C5: get_last3_total(player, column) is 0.0 for an unknown column or a player
\* without rows; otherwise it is the sum of the column (null as 0.0) over exactly
\* the player's rows with week >= (the player's maximum week - 2): no row of
\* another player and no earlier row of the same player is counted.
C5_Last3Total ==
    op = "get_last3_total" =>
        LET player == args[1]
            column == args[2]
        IN  IF column \notin PLAYER_COLUMNS \/ RowsFor(player) = {}
            THEN result = Zero
            ELSE result = SumOver(TrailingWindow(player), column)

\* Player A has exactly the weeks {1, 5, 6}, 7 yards in each: the total is 14.
C5_Witness ==
    /\ op = "get_last3_total" /\ args = <<"A", "passing_yards">>
    /\ Len(PLAYER_STATS) = 3
    /\ {PLAYER_STATS[i].week : i \in 1..3} = {Week(1), Week(5), Week(6)}
    /\ \A i \in 1..3 : PLAYER_STATS[i].passing_yards = Int2Val(7)
    /\ result = Int2Val(14)

\* C6: get_player_stat(player, column) is 0.0 when the column is not a column of
\* the table or no row matches the player; with a single matching row it is that
\* row's value, null replaced by 0.0; none of these cases raises.
C6_PlayerStat ==
    op = "get_player_stat" =>
        LET player == args[1]
            column == args[2]
        IN  /\ (column \notin PLAYER_COLUMNS \/ RowsFor(player) = {}) => result = Zero
            /\ (column \in PLAYER_COLUMNS /\ Cardinality(RowsFor(player)) = 1) =>
                   LET v == PLAYER_STATS[CHOOSE i \in RowsFor(player) : TRUE][column]
                   IN  result = IF IsNone(v) THEN Zero ELSE v
            /\ (column \notin PLAYER_COLUMNS \/ Cardinality(RowsFor(player)) <= 1)
                   => IsNum(result)

\* The single matching row holds a null in the column: the result is 0.0.
C6_Witness ==
    /\ op = "get_player_stat" /\ args = <<"A", "passing_yards">>
    /\ "passing_yards" \in PLAYER_COLUMNS
    /\ Cardinality(RowsFor("A")) = 1
    /\ Len(PLAYER_STATS) = 3
    /\ \A i \in RowsFor("A") : PLAYER_STATS[i].passing_yards = None
    /\ result = Zero

(***************************************************************************)
(* Adjustments: the team-stat table varies; get_def_adjustment and         *)
(* get_pace_adjustment are called                                          *)
(***************************************************************************)
MaxTeamRows == 2

TeamRow(t, epa, spp) ==
    [team |-> t, def_epa_per_play |-> epa, seconds_per_play |-> spp]

\* SEA with every pairing of a defensive EPA (null, 0.2, -0.2, -2, -4) and a pace
\* (null, 0, 25, 30 seconds per play), and four rows of NE.
TeamRows ==
    {TeamRow("SEA", epa, spp) :
        epa \in {None, Rat(1, 5), Rat(-1, 5), Int2Val(-2), Int2Val(-4)},
        spp \in {None, Zero, Int2Val(25), Int2Val(30)}}
    \cup {TeamRow("NE", Rat(1, 5), Int2Val(30)), TeamRow("NE", None, Int2Val(25)),
          TeamRow("NE", Int2Val(-2), None), TeamRow("NE", Zero, Zero)}

TeamColumnChoices ==
    {{}, {"def_epa_per_play"}, {"seconds_per_play"},
     {"def_epa_per_play", "seconds_per_play"}}

TeamTables(rows, n) ==
    \E missing \in TeamColumnChoices :
        /\ TEAM_COLUMNS = {"team", "def_epa_per_play", "seconds_per_play"} \ missing
        /\ TEAM_STATS \in SeqsUpTo({r \in rows : \A c \in missing : r[c] = None}, n)

Call_get_def_adjustment ==
    \E team_abbr \in Teams :
        /\ op' = "get_def_adjustment"
        /\ args' = <<team_abbr>>
        /\ result' = get_def_adjustment(team_abbr)
        /\ UNCHANGED tables

Call_get_pace_adjustment ==
    \E team_abbr \in Teams :
        /\ op' = "get_pace_adjustment"
        /\ args' = <<team_abbr>>
        /\ result' = get_pace_adjustment(team_abbr)
        /\ UNCHANGED tables

InitTeam ==
    /\ ROSTERS = <<>>
    /\ PLAYER_STATS = <<>>
    /\ PLAYER_COLUMNS = {}
    /\ TeamTables(TeamRows, MaxTeamRows)
    /\ NoCall

NextTeam == Call_get_def_adjustment \/ Call_get_pace_adjustment

SpecTeam == InitTeam /\ [][NextTeam]_vars

TeamIdx(team) == {i \in 1..Len(TEAM_STATS) : TEAM_STATS[i].team = team}

TheRow(team) == TEAM_STATS[CHOOSE i \in TeamIdx(team) : TRUE]

\* C7: get_def_adjustment(opponent) is exactly 1.0 when the team-stat table is
\* empty, the opponent has no row or the def_epa_per_play column is absent;
\* otherwise, for the opponent's (single) row, it is 1 + 0.5 * def_epa_per_play
\* (null as 0.0), unclamped: above 1 for a positive EPA, below 1 for a negative
\* one, possibly zero or negative, and 1.1 for EPA = 0.2.  (With several rows of
\* the opponent, contrary to the one-row-per-team data model, the lookup raises.)
C7_DefAdjustment ==
    op = "get_def_adjustment" =>
        LET opp == args[1] IN
        IF TEAM_STATS = <<>> \/ TeamIdx(opp) = {}
              \/ "def_epa_per_play" \notin TEAM_COLUMNS
        THEN result = One
        ELSE IF Cardinality(TeamIdx(opp)) > 1 THEN result = Raise("ValueError")
        ELSE LET cell == TheRow(opp).def_epa_per_play
                 epa == IF IsNone(cell) THEN Zero ELSE cell
             IN  /\ result = Rat(2 * epa.d + epa.n, 2 * epa.d)
                 /\ epa.n > 0 => RLess(One, result)
                 /\ epa.n < 0 => RLess(result, One)
                 /\ epa = Rat(1, 5) => result = Rat(11, 10)
                 /\ epa = Int2Val(-2) => result = Zero
                 /\ epa = Int2Val(-4) => result = Int2Val(-1)

\* The opponent's EPA is 0.2: the multiplier is 1.1.
C7_Witness ==
    /\ op = "get_def_adjustment" /\ args = <<"NE">>
    /\ Cardinality(TeamIdx("NE")) = 1 /\ Len(TEAM_STATS) = 2
    /\ TheRow("NE").def_epa_per_play = Rat(1, 5)
    /\ result = Rat(11, 10)

\* No clamping: a strongly negative EPA gives a negative multiplier.
C7_WitnessNegative ==
    op = "get_def_adjustment" /\ IsNum(result) /\ RLess(result, Zero)

PaceIdx == {i \in 1..Len(TEAM_STATS) : IsNum(TEAM_STATS[i].seconds_per_play)}

RECURSIVE PaceTotal(_)
PaceTotal(idx) ==
    IF idx = {} THEN Zero
    ELSE LET i == CHOOSE j \in idx : TRUE
         IN  RAdd(TEAM_STATS[i].seconds_per_play, PaceTotal(idx \ {i}))

\* The mean of seconds_per_play over the rows of all teams that hold a value.
LeagueMean == RDiv(PaceTotal(PaceIdx), Int2Val(Cardinality(PaceIdx)))

\* C8: get_pace_adjustment(team) is exactly 1.0 when the seconds_per_play column
\* is absent, the team has no row, or the team's seconds_per_play is zero or null;
\* otherwise, for the team's (single) row, it is the league mean of
\* seconds_per_play divided by the team's value, never a division by zero: above
\* 1 for a team faster than the mean, and 1.1 for 25 against a mean of 27.5.
\* (With several rows of the team the lookup raises.)
C8_PaceAdjustment ==
    op = "get_pace_adjustment" =>
        LET team == args[1] IN
        IF "seconds_per_play" \notin TEAM_COLUMNS \/ TeamIdx(team) = {}
        THEN result = One
        ELSE IF Cardinality(TeamIdx(team)) > 1 THEN result = Raise("ValueError")
        ELSE LET seconds == TheRow(team).seconds_per_play
             IN  IF IsNone(seconds) \/ seconds = Zero THEN result = One
                 ELSE /\ result = RDiv(LeagueMean, seconds)
                      /\ IsNum(result)
                      /\ RLess(seconds, LeagueMean) => RLess(One, result)
                      /\ (seconds = Int2Val(25) /\ LeagueMean = Rat(55, 2))
                             => result = Rat(11, 10)

\* seconds_per_play = 25 against a league mean of 27.5: the multiplier is 1.1.
C8_Witness ==
    /\ op = "get_pace_adjustment" /\ args = <<"SEA">>
    /\ Cardinality(TeamIdx("SEA")) = 1
    /\ TheRow("SEA").seconds_per_play = Int2Val(25)
    /\ LeagueMean = Rat(55, 2)
    /\ result = Rat(11, 10)

(***************************************************************************)
(* Position scoring: the player-stat table varies; the scorers are called  *)
(***************************************************************************)
MaxScoreRows == 2

Passing(a, c, y, e, p) ==
    [attempts |-> a, completions |-> c, passing_yards |-> y, passing_epa |-> e,
     pacr |-> p]

Rushing(c, y, e) == [carries |-> c, rushing_yards |-> y, rushing_epa |-> e]

Receiving(r, y, e, w) ==
    [receptions |-> r, receiving_yards |-> y, receiving_epa |-> e, wopr |-> w]

\* Volumes around each floor (null or 0, one below, at the floor), each with a
\* productive line and a line of nulls and negatives (passing also with a line of
\* nulls only); 30 attempts appear in the null-week row of ScoreRows.
PassingLines ==
    {Passing(a, l[1], l[2], l[3], l[4]) :
        a \in {None, Int2Val(19), Int2Val(20)},
        l \in {<<Int2Val(20), Int2Val(300), Int2Val(5), Int2Val(4)>>,
               <<None, None, Int2Val(-10), Int2Val(-1)>>,
               <<None, None, None, None>>}}

RushingLines ==
    {Rushing(c, l[1], l[2]) :
        c \in {Zero, Int2Val(9), Int2Val(10)},
        l \in {<<Int2Val(50), Int2Val(5)>>, <<None, Int2Val(-20)>>}}

ReceivingLines ==
    {Receiving(r, l[1], l[2], l[3]) :
        r \in {None, Int2Val(9), Int2Val(10)},
        l \in {<<Int2Val(120), Int2Val(5), Rat(1, 2)>>, <<None, Int2Val(-10), None>>}}

ScoreRows ==
    {StatRow("A", Week(6), l) : l \in PassingLines \cup RushingLines \cup ReceivingLines}
    \cup {StatRow("A", None, l) :
            l \in {Passing(Int2Val(30), Int2Val(20), Int2Val(300), Int2Val(5), Int2Val(4)),
                   Rushing(Int2Val(10), Int2Val(50), Int2Val(5)),
                   Receiving(Int2Val(10), Int2Val(120), Int2Val(5), Rat(1, 2))}}
    \cup {StatRow("B", Week(6), l) :
            l \in {Passing(Int2Val(20), Int2Val(20), Int2Val(300), Int2Val(5), Int2Val(4)),
                   Rushing(Int2Val(10), Int2Val(50), Int2Val(5)),
                   Receiving(Int2Val(10), Int2Val(120), Int2Val(5), Rat(1, 2))}}

Call_qb_score ==
    \E player \in Players :
        /\ op' = "qb_score"
        /\ args' = <<player>>
        /\ result' = qb_score(player)
        /\ UNCHANGED tables

Call_rb_score ==
    \E player \in Players :
        /\ op' = "rb_score"
        /\ args' = <<player>>
        /\ result' = rb_score(player)
        /\ UNCHANGED tables

Call_rec_score ==
    \E player \in Players :
        /\ op' = "rec_score"
        /\ args' = <<player>>
        /\ result' = rec_score(player)
        /\ UNCHANGED tables

ScoreTables(rows, n) ==
    \E missing \in {{}, {"attempts"}, {"rushing_yards"}} :
        /\ PLAYER_COLUMNS = (KeyColumns \cup StatColumns) \ missing
        /\ PLAYER_STATS \in SeqsUpTo({r \in rows : \A c \in missing : r[c] = None}, n)

InitScore ==
    /\ ROSTERS = <<>>
    /\ ScoreTables(ScoreRows, MaxScoreRows)
    /\ TEAM_STATS = <<>>
    /\ TEAM_COLUMNS = {}
    /\ NoCall

NextScore == Call_qb_score \/ Call_rb_score \/ Call_rec_score

SpecScore == InitScore /\ [][NextScore]_vars

Scorers == {"qb_score", "rb_score", "rec_score"}

VolumeColumn ==
    [qb_score |-> "attempts", rb_score |-> "carries", rec_score |-> "receptions"]

YardsColumn ==
    [qb_score |-> "passing_yards", rb_score |-> "rushing_yards",
     rec_score |-> "receiving_yards"]

Floor == [qb_score |-> 20, rb_score |-> 10, rec_score |-> 10]

\* The cell of the player's only row, a null or a missing column counting 0.
Cell(player, column) ==
    IF column \notin PLAYER_COLUMNS THEN Zero
    ELSE LET v == PLAYER_STATS[CHOOSE i \in RowsFor(player) : TRUE][column]
         IN  IF IsNone(v) THEN Zero ELSE v

\* The player's volume statistic is defined: the column is missing, or the player
\* has no row or one row.
HasVolume(player, column) ==
    column \notin PLAYER_COLUMNS \/ Cardinality(RowsFor(player)) <= 1

Volume(player, column) ==
    IF column \notin PLAYER_COLUMNS \/ RowsFor(player) = {} THEN Zero
    ELSE Cell(player, column)

\* C4: a scorer returns absent exactly when the player's volume statistic (null
\* or missing as 0) is below its floor (20 attempts, 10 carries, 10 receptions),
\* whatever the other statistics; at or above the floor it returns a number; and
\* no call ends in a division by zero.
C4_FloorDecidesAbsence ==
    op \in Scorers =>
        LET player == args[1]
            column == VolumeColumn[op]
        IN  /\ IsNone(result) <=>
                  (HasVolume(player, column)
                       /\ RLess(Volume(player, column), Int2Val(Floor[op])))
            /\ (HasVolume(player, column)
                    /\ ~RLess(Volume(player, column), Int2Val(Floor[op])))
                   => IsNum(result)
            /\ result.tag # "ZeroDivisionError"

\* A quarterback with exactly 20 attempts is scored; the other lines are null.
C4_Witness ==
    /\ op = "qb_score" /\ args = <<"A">>
    /\ Cardinality(RowsFor("A")) = 1
    /\ Volume("A", "attempts") = Int2Val(20)
    /\ Cell("A", "completions") = Zero
    /\ IsNum(result)

\* A player one below the floor is absent although the rest of the line is
\* productive.
C4_WitnessAbsent ==
    /\ op = "rb_score" /\ args = <<"A">>
    /\ Cardinality(RowsFor("A")) = 1
    /\ Volume("A", "carries") = Int2Val(9)
    /\ Cell("A", "rushing_yards") = Int2Val(50)
    /\ IsNone(result)

\* The score without its trailing term, from the cells of the player's only row.
SeasonTerms(scorer, player) ==
    LET v == Volume(player, VolumeColumn[scorer])
        y == Cell(player, YardsColumn[scorer])
    IN  CASE scorer = "qb_score" ->
               RAdd(RAdd(RAdd(Times(RDiv(Cell(player, "completions"), v), 10, 1),
                              Times(RDiv(y, v), 2, 1)),
                         Times(Cell(player, "passing_epa"), 4, 10)),
                    Times(safe_sqrt(Cell(player, "pacr")), 5, 1))
          [] scorer = "rb_score" ->
               RAdd(RAdd(Times(v, 5, 10), Times(RDiv(y, v), 2, 1)),
                    Times(Cell(player, "rushing_epa"), 4, 10))
          [] scorer = "rec_score" ->
               RAdd(RAdd(Times(RDiv(y, v), 2, 1),
                         Times(Cell(player, "receiving_epa"), 4, 10)),
                    Times(Cell(player, "wopr"), 10, 1))

\* C10: whenever a scorer returns a value, the player has exactly one stat row,
\* get_last3_total of the yards column equals get_player_stat of it (0.0 when that
\* row's week is null), and the trailing term of the score is 0.01 * that value.
C10_TrailingWindowIsSeason ==
    (op \in Scorers /\ IsNum(result)) =>
        LET player == args[1]
            column == YardsColumn[op]
            only == PLAYER_STATS[CHOOSE i \in RowsFor(player) : TRUE]
            trailing == IF IsNone(only.week) THEN Zero
                        ELSE get_player_stat(player, column)
        IN  /\ Cardinality(RowsFor(player)) = 1
            /\ get_last3_total(player, column) = trailing
            /\ RSub(result, SeasonTerms(op, player)) = Times(trailing, 1, 100)
            /\ ~IsNone(only.week) =>
                   RSub(result, SeasonTerms(op, player)) = Times(Cell(player, column), 1, 100)

\* A scored quarterback with 300 season yards: the trailing term is 3.
C10_Witness ==
    /\ op = "qb_score" /\ args = <<"A">> /\ IsNum(result)
    /\ Len(PLAYER_STATS) = 2
    /\ get_player_stat("A", "passing_yards") = Int2Val(300)
    /\ get_last3_total("A", "passing_yards") = Int2Val(300)
    /\ RSub(result, SeasonTerms("qb_score", "A")) = Int2Val(3)

\* A scored player whose only row has a null week: the trailing term is 0.
C10_WitnessNullWeek ==
    /\ op = "rec_score" /\ args = <<"A">> /\ IsNum(result)
    /\ get_player_stat("A", "receiving_yards") = Int2Val(120)
    /\ get_last3_total("A", "receiving_yards") = Zero

(***************************************************************************)
(* Team model: all three tables vary; build_team_model is called           *)
(***************************************************************************)
MaxBuildRosterRows == 2

MaxBuildStatRows == 2

MaxBuildTeamRows == 2

\* One SEA player per loop of build_team_model, all active at the latest week.
BuildRosterRows ==
    {RosterRow("SEA", Week(2), "REG", "ACT", "QB", "B"),
     RosterRow("SEA", Week(2), "REG", "ACT", "RB", "B"),
     RosterRow("SEA", Week(2), "REG", "ACT", "WR", "A"),
     RosterRow("SEA", Week(2), "REG", "ACT", "TE", "A")}

Merge(f, g) == [c \in DOMAIN f \cup DOMAIN g |-> IF c \in DOMAIN f THEN f[c] ELSE g[c]]

\* B with a negative passing line and a productive rushing line; B with a passing
\* line that scores exactly 0; A with a productive receiving line.
BuildStatRows ==
    {StatRow("B", Week(6), Merge(Passing(Int2Val(20), None, None, Int2Val(-10), Int2Val(-1)),
                                 Rushing(Int2Val(10), Int2Val(50), Int2Val(5)))),
     StatRow("B", None, Passing(Int2Val(20), None, None, None, None)),
     StatRow("A", Week(6), Receiving(Int2Val(10), Int2Val(120), Int2Val(5), Rat(1, 2)))}

\* SEA and NE with defensive EPA -0.2 and 0.2 and paces 25 and 30 (mean 27.5).
BuildTeamRows ==
    {TeamRow("SEA", Rat(-1, 5), Int2Val(25)), TeamRow("NE", Rat(1, 5), Int2Val(30))}

Matchups == {<<"SEA", "NE">>, <<"NE", "SEA">>}

Call_build_team_model ==
    \E m \in Matchups :
        /\ op' = "build_team_model"
        /\ args' = m
        /\ result' = build_team_model(m[1], m[2])
        /\ UNCHANGED tables

InitBuild ==
    /\ ROSTERS \in SeqsUpTo(BuildRosterRows, MaxBuildRosterRows)
    /\ PLAYER_COLUMNS = KeyColumns \cup StatColumns
    /\ PLAYER_STATS \in SeqsUpTo(BuildStatRows, MaxBuildStatRows)
    /\ TEAM_COLUMNS = {"team", "def_epa_per_play", "seconds_per_play"}
    /\ TEAM_STATS \in SeqsUpTo(BuildTeamRows, MaxBuildTeamRows)
    /\ NoCall

NextBuild == Call_build_team_model

SpecBuild == InitBuild /\ [][NextBuild]_vars

RECURSIVE PresentSum(_, _, _)
\* The sum of the present scores of position group k over the first n players.
PresentSum(k, players, n) ==
    IF n = 0 THEN Zero
    ELSE LET score == ScoreOf(k, players[n])
         IN  IF IsNum(score) THEN RAdd(PresentSum(k, players, n - 1), score)
             ELSE PresentSum(k, players, n - 1)

GroupSum(k, team) ==
    LET players == get_skill_players(team)[k] IN PresentSum(k, players, Len(players))

\* C1: when build_team_model(team, opponent) returns, the rating is
\* (1.5 * sum of qb_score over the QBs + sum of rb_score over the RBs + sum of
\* rec_score over the WRs + 0.8 * sum of rec_score over the TEs), each sum over
\* the present scores only (negative ones included), times
\* get_def_adjustment(opponent) times get_pace_adjustment(team), the multipliers
\* applied once to the aggregate; an empty roster yields 0.
C1_RatingFormula ==
    (op = "build_team_model" /\ IsNum(result)) =>
        LET team == args[1]
            opponent == args[2]
            aggregate ==
                RAdd(RAdd(Times(GroupSum(1, team), 15, 10), GroupSum(2, team)),
                     RAdd(GroupSum(3, team), Times(GroupSum(4, team), 8, 10)))
        IN  /\ result = RMul(RMul(aggregate, get_def_adjustment(opponent)),
                             get_pace_adjustment(team))
            /\ get_skill_players(team) = NoPlayers => result = Zero

\* A rating made of a negative quarterback score (-4, weight 1.5) and a
\* running-back score (17.5), scaled by a defence and a pace multiplier of 1.1
\* each: (1.5 * -4 + 17.5) * 1.1 * 1.1.
C1_Witness ==
    /\ op = "build_team_model" /\ args = <<"SEA", "NE">> /\ IsNum(result)
    /\ get_skill_players("SEA") = <<<<"B">>, <<"B">>, <<>>, <<>>>>
    /\ qb_score("B") = Int2Val(-4)
    /\ rb_score("B") = Rat(35, 2)
    /\ get_def_adjustment("NE") = Rat(11, 10)
    /\ get_pace_adjustment("SEA") = Rat(11, 10)
    /\ result = RMul(Rat(23, 2), Rat(121, 100))

\* A present score of exactly 0 and an absent score both leave the rating at 0.
C1_WitnessZero ==
    /\ op = "build_team_model" /\ args = <<"SEA", "NE">>
    /\ get_skill_players("SEA") = <<<<"B">>, <<"B">>, <<>>, <<>>>>
    /\ qb_score("B") = Zero
    /\ IsNone(rb_score("B"))
    /\ result = Zero

\* C2: build_team_model has no failure path: whatever the rows of the three
\* tables (any number per player and per team, any nulls), it returns a number.
C2_NeverRaises ==
    op = "build_team_model" => IsNum(result)

====
